---- MODULE Spec2Model ----
(***************************************************************************)
(* Model of the request-validation middleware of                          *)
(* @novice1/validator-typebox (src/src/index.ts).                          *)
(*                                                                         *)
(* JavaScript values are tagged records; a JavaScript object is a record   *)
(* Obj(f) whose f maps its own property names to values.  The TypeBox      *)
(* library is outside the repository: Type.Object, IsObject, IsSchema and  *)
(* the compiled validator (Parse, Errors) are modelled by their documented *)
(* behaviour on a small schema language (Number, String, Object).          *)
(***************************************************************************)
EXTENDS Integers, Sequences, FiniteSets, TLC

(***************************************************************************)
(* JavaScript values                                                       *)
(***************************************************************************)
Undef == [t |-> "undef"]
Null == [t |-> "null"]
Bool(b) == [t |-> "bool", b |-> b]
Str(s) == [t |-> "str", s |-> s]
Num(n) == [t |-> "num", n |-> n]
Fn(name) == [t |-> "fn", name |-> name]
Arr(items) == [t |-> "arr", items |-> items]
Obj(f) == [t |-> "obj", f |-> f]

NoProps == [k \in {} |-> Undef]
EmptyObj == Obj(NoProps)

\* typeof v === 'object' && v  (arrays are objects, null is excluded)
IsJsObject(v) == v.t \in {"obj", "arr"}

\* JavaScript truthiness
Truthy(v) ==
    CASE v.t = "undef" -> FALSE
      [] v.t = "null" -> FALSE
      [] v.t = "bool" -> v.b
      [] v.t = "str" -> v.s # ""
      [] v.t = "num" -> v.n # 0
      [] OTHER -> TRUE

\* the own property names of an object (an array of this model has none)
Keys(v) == IF v.t = "obj" THEN DOMAIN v.f ELSE {}

\* v[k]: undefined when the property is absent
Get(v, k) == IF k \in Keys(v) THEN v.f[k] ELSE Undef

\* key in v
HasKey(v, k) == k \in Keys(v)

\* the object v with property k set to x
Put(v, k, x) == Obj([j \in Keys(v) \cup {k} |-> IF j = k THEN x ELSE v.f[j]])

(***************************************************************************)
(* Program constants                                                       *)
(***************************************************************************)
PARAMETERS_PROPS == <<"params", "body", "query", "headers", "cookies", "files">>

PartNames == {PARAMETERS_PROPS[i] : i \in 1..Len(PARAMETERS_PROPS)}

(***************************************************************************)
(* TypeBox: schema construction and guards                                 *)
(***************************************************************************)
TypeNumber == Obj(("~kind" :> Str("Number")) @@ ("type" :> Str("number")))
TypeString == Obj(("~kind" :> Str("String")) @@ ("type" :> Str("string")))

\* Type.String({ default: d })
TypeStringDefault(d) ==
    Obj(("~kind" :> Str("String")) @@ ("type" :> Str("string")) @@ ("default" :> d))

\* Type.Object(properties): properties is a JavaScript object of schemas
TypeObject(properties) ==
    Obj(("~kind" :> Str("Object")) @@ ("type" :> Str("object"))
        @@ ("properties" :> properties))

\* IsSchema(value)
IsSchema(v) == v.t = "obj" /\ HasKey(v, "~kind")

\* IsObject(value): the value is a TObject
IsObject(v) == IsSchema(v) /\ Get(v, "~kind") = Str("Object")

(***************************************************************************)
(* Schema-reference lookup                                                 *)
(*                                                                         *)
(* The schemaProperty string is a sequence of pieces: each piece is one of *)
(* the characters "[", "]", "." or a run of other characters.              *)
(***************************************************************************)
PathStr(pieces) == [t |-> "str", pieces |-> pieces]

\* property && typeof property === 'string'
PropertyGiven(property) == property.t = "str" /\ property.pieces # <<>>

\* the ']' closing a bracket group opened at s[i], or 0: /\[([^[\]]*)\]/
BracketEnd(s, i) ==
    LET js == {j \in (i+1)..Len(s) : s[j] \in {"[", "]"}}
        first == IF js = {} THEN 0 ELSE CHOOSE j \in js : \A k \in js : j <= k
    IN IF first # 0 /\ s[first] = "]" THEN first ELSE 0

\* variant: the pattern lacks the g flag, only the first group is replaced
ReplaceFirstBracket(s, i) ==
    LET opens == {j \in i..Len(s) : s[j] = "[" /\ BracketEnd(s, j) # 0}
        first == IF opens = {} THEN 0 ELSE CHOOSE j \in opens : \A k \in opens : j <= k
    IN IF first = 0 THEN SubSeq(s, i, Len(s))
       ELSE SubSeq(s, i, first - 1) \o <<".">> \o SubSeq(s, first + 1, BracketEnd(s, first) - 1)
              \o <<".">> \o SubSeq(s, BracketEnd(s, first) + 1, Len(s))

RECURSIVE ReplaceBrackets(_, _)
\* property.replace(/\[([^[\]]*)\]/g, '.$1.') from position i on
ReplaceBrackets(s, i) ==
    IF i > Len(s) THEN <<>>
    ELSE IF s[i] = "[" /\ BracketEnd(s, i) # 0
         THEN <<".">> \o SubSeq(s, i+1, BracketEnd(s, i) - 1) \o <<".">>
                \o ReplaceBrackets(s, BracketEnd(s, i) + 1)
         ELSE <<s[i]>> \o ReplaceBrackets(s, i + 1)

RECURSIVE SplitDots(_, _, _)
\* .split('.') from position i on, cur being the segment read so far
SplitDots(s, i, cur) ==
    IF i > Len(s) THEN <<cur>>
    ELSE IF s[i] = "." THEN <<cur>> \o SplitDots(s, i + 1, "")
         ELSE SplitDots(s, i + 1, cur \o s[i])

\* .filter((t) => t !== '')
NonEmptySegments(segs) == SelectSeq(segs, LAMBDA seg : seg # "")

\* the key segments of a schemaProperty string
PathSegments(pieces) == NonEmptySegments(SplitDots(ReplaceBrackets(pieces, 1), 1, ""))

\* one step of the reduce callback
ReduceStep(prev, curr) ==
    IF Truthy(prev) /\ IsJsObject(prev) /\ HasKey(prev, curr) THEN Get(prev, curr)
    ELSE Undef

RECURSIVE ReducePath(_, _, _)
\* .reduce(callback, schemaFromParameters) from segment i on
ReducePath(segs, i, prev) ==
    IF i > Len(segs) THEN prev
    ELSE ReducePath(segs, i + 1, ReduceStep(prev, segs[i]))

\* variant: an array reached by the path is accepted (no Array.isArray test)
retrieveParametersValueArrays(parameters, property) ==
    IF Truthy(parameters) /\ IsJsObject(parameters)
    THEN IF PropertyGiven(property)
         THEN LET subParameters == ReducePath(PathSegments(property.pieces), 1, parameters)
              IN IF Truthy(subParameters) /\ IsJsObject(subParameters)
                 THEN subParameters
                 ELSE Null
         ELSE parameters
    ELSE Null

retrieveParametersValue(parameters, property) ==
    IF Truthy(parameters) /\ IsJsObject(parameters)
    THEN IF PropertyGiven(property)
         THEN LET subParameters == ReducePath(PathSegments(property.pieces), 1, parameters)
              IN IF Truthy(subParameters) /\ IsJsObject(subParameters)
                    /\ subParameters.t # "arr"
                 THEN subParameters
                 ELSE Null
         ELSE parameters
    ELSE Null

(***************************************************************************)
(* Schema normalisation                                                    *)
(***************************************************************************)
\* variant: a part is wrapped even when it already is a schema
PartSchemaAlwaysWraps(currentSchema, p) == TypeObject(Get(currentSchema, p))

\* the forEach over PARAMETERS_PROPS: the entry of tmpSchema for part p
PartSchema(currentSchema, p) ==
    LET currentSchemaValue == Get(currentSchema, p)
    IN IF IsSchema(currentSchemaValue) THEN currentSchemaValue
       ELSE TypeObject(currentSchemaValue)

\* the keys the forEach puts in tmpSchema
PartKeys(currentSchema) ==
    {p \in PartNames : Truthy(Get(currentSchema, p)) /\ IsJsObject(Get(currentSchema, p))}

\* variant: tmpSchema is wrapped even when it has no key
retrieveSchemaWrapsEmpty(parameters, property) ==
    LET v == retrieveParametersValue(parameters, property)
    IN IF Truthy(v)
       THEN LET tmpSchema == Obj([p \in PartKeys(v) |-> PartSchema(v, p)])
                tempValue == IF ~IsObject(v) THEN TypeObject(tmpSchema) ELSE v
            IN IF Get(tempValue, "type") = Str("object") /\ IsObject(tempValue)
               THEN tempValue
               ELSE Null
       ELSE v

retrieveSchema(parameters, property) ==
    LET v == retrieveParametersValue(parameters, property)
    IN IF Truthy(v)
       THEN LET tmpSchema == Obj([p \in PartKeys(v) |-> PartSchema(v, p)])
                tempValue == IF ~IsObject(v)
                             THEN IF Keys(tmpSchema) # {} THEN TypeObject(tmpSchema)
                                  ELSE tmpSchema
                             ELSE v
            IN IF Get(tempValue, "type") = Str("object") /\ IsObject(tempValue)
               THEN tempValue
               ELSE Null
       ELSE v

(***************************************************************************)
(* Request field extraction                                                *)
(***************************************************************************)
\* the parts buildValueToValidate copies: the recognised names declared in
\* schema.properties
DeclaredParts(schema) ==
    IF HasKey(schema, "properties") /\ Truthy(Get(schema, "properties"))
       /\ IsJsObject(Get(schema, "properties"))
    THEN {p \in PartNames : HasKey(Get(schema, "properties"), p)}
    ELSE {}

\* variant: every part of the request is copied, declared or not
buildValueToValidateAllParts(schema, request) ==
    Obj([p \in PartNames |-> Get(request, p)])

buildValueToValidate(schema, request) ==
    Obj([p \in DeclaredParts(schema) |-> Get(request, p)])

(***************************************************************************)
(* TypeBox: the compiled validator C = Compile(schema)                     *)
(***************************************************************************)
\* the order in which the properties of an object are visited
KeyOrder == PARAMETERS_PROPS \o <<"count", "page", "id", "extra">>

OrderedKeys(v) == SelectSeq(KeyOrder, LAMBDA k : k \in Keys(v))

\* strings that convert to a number
NumericStrings == {"42", "7"}

ToNumber(s) == IF s = "42" THEN 42 ELSE 7

\* an error descriptor of the validator
ValidationError(path, keyword) == [instancePath |-> path, keyword |-> keyword]

RECURSIVE CErrors(_, _, _)
RECURSIVE PropertyErrors(_, _, _, _, _)
\* the errors of the properties keys[i..] of an object schema on value
PropertyErrors(properties, keys, i, value, path) ==
    IF i > Len(keys) THEN <<>>
    ELSE (IF Get(value, keys[i]) = Undef
          THEN <<ValidationError(path, "required " \o keys[i])>>
          ELSE CErrors(properties.f[keys[i]], value.f[keys[i]], path \o "/" \o keys[i]))
         \o PropertyErrors(properties, keys, i + 1, value, path)

\* [...C.Errors(value)]: every error of value against schema, in order
CErrors(schema, value, path) ==
    LET kind == Get(schema, "~kind")
    IN CASE kind = Str("Number") ->
              IF value.t = "num" THEN <<>> ELSE <<ValidationError(path, "type number")>>
         [] kind = Str("String") ->
              IF value.t = "str" THEN <<>> ELSE <<ValidationError(path, "type string")>>
         [] kind = Str("Object") ->
              IF value.t # "obj" THEN <<ValidationError(path, "type object")>>
              ELSE PropertyErrors(Get(schema, "properties"),
                                  OrderedKeys(Get(schema, "properties")), 1, value, path)
         [] OTHER -> <<>>

RECURSIVE Convert(_, _)
\* the conversion step of C.Parse: values coerced to the declared types
Convert(schema, value) ==
    LET kind == Get(schema, "~kind")
    IN CASE kind = Str("Number") ->
              IF value.t = "str" /\ value.s \in NumericStrings
              THEN Num(ToNumber(value.s)) ELSE value
         [] kind = Str("Object") ->
              IF value.t # "obj" THEN value
              ELSE Obj([k \in Keys(value) |->
                          IF HasKey(Get(schema, "properties"), k)
                          THEN Convert(Get(schema, "properties").f[k], value.f[k])
                          ELSE value.f[k]])
         [] OTHER -> value

RECURSIVE Default(_, _)
\* the default step of C.Parse: a value that is undefined takes the default
\* annotation of its schema, and so does every declared property an object
\* value lacks
Default(schema, value) ==
    LET kind == Get(schema, "~kind")
    IN IF value = Undef
       THEN (IF HasKey(schema, "default") THEN Get(schema, "default") ELSE value)
       ELSE IF kind = Str("Object") /\ value.t = "obj"
       THEN LET properties == Get(schema, "properties")
                filled == {k \in Keys(properties) :
                              Default(properties.f[k], Get(value, k)) # Undef}
            IN Obj([k \in Keys(value) \cup filled |->
                      IF k \in Keys(properties)
                      THEN Default(properties.f[k], Get(value, k))
                      ELSE value.f[k]])
       ELSE value

\* C.Parse(value): defaults filled in, then values converted; the bundles
\* hold declared properties only, so the cleaning step removes nothing
CParse(schema, value) == Convert(schema, Default(schema, value))

\* C.Parse(value) returns (rather than throws) only a value free of errors
CParseReturns(schema, value) == CErrors(schema, CParse(schema, value), "") = <<>>

(***************************************************************************)
(* Extend(target, source): the shallow merge of the extend package         *)
(***************************************************************************)
Extend(target, source) ==
    LET copied == {k \in Keys(source) : source.f[k] # Undef}
    IN Obj([k \in Keys(target) \cup copied |->
              IF k \in copied THEN source.f[k] ELSE target.f[k]])

\* variant: query is merged into the request with the other parts
WithQuery(parsedValues) == parsedValues

\* const { query, ...validatedProps } = parsedValues
WithoutQuery(parsedValues) == Obj([k \in Keys(parsedValues) \ {"query"} |-> parsedValues.f[k]])

(***************************************************************************)
(* Decisions of validatorTypeboxRequestHandler                             *)
(***************************************************************************)
\* req.meta?.parameters
RouteParameters(request) == Get(Get(request, "meta"), "parameters")

\* variant: a per-route false does not switch parsing off (override || option)
ParseEnabledOrOption(parameters, opts) ==
    LET override == Get(parameters, "validatorTypeboxOptions")
    IN \/ (override.t = "bool" /\ override.b)
       \/ Truthy(Get(opts, "parse"))

\* variant: every truthy per-route value switches parsing on (!!override)
ParseEnabledTruthyOverride(parameters, opts) ==
    LET override == Get(parameters, "validatorTypeboxOptions")
    IN \/ Truthy(override)
       \/ (override.t = "undef" /\ Truthy(Get(opts, "parse")))

\* the parseEnabled expression
ParseEnabled(parameters, opts) ==
    LET override == Get(parameters, "validatorTypeboxOptions")
    IN \/ (override.t = "bool" /\ override.b)
       \/ (override.t = "undef" /\ Truthy(Get(opts, "parse")))

\* variant: the handler of the factory is tried before the per-route one
ErrorSinkFactoryFirst(parameters, handler) ==
    IF Truthy(handler) /\ handler.t = "fn" THEN "factory"
    ELSE IF Get(parameters, "onerror").t = "fn" THEN "route"
    ELSE "response"

\* variant: a per-route onerror that is no function ends in the 400 response
ErrorSinkRouteOnly(parameters, handler) ==
    IF HasKey(parameters, "onerror") /\ Get(parameters, "onerror") # Undef
    THEN (IF Get(parameters, "onerror").t = "fn" THEN "route" ELSE "response")
    ELSE IF Truthy(handler) /\ handler.t = "fn" THEN "factory"
    ELSE "response"

\* where a validation failure is sent: the per-route handler, the handler of
\* the factory, or the 400 response
ErrorSink(parameters, handler) ==
    IF Get(parameters, "onerror").t = "fn" THEN "route"
    ELSE IF Truthy(handler) /\ handler.t = "fn" THEN "factory"
    ELSE "response"

\* variant: only the first error is reported
ErrorEnvelopeFirst(errs) == Obj([errors |-> Arr(SubSeq(errs, 1, 1))])

\* const err = { errors }
ErrorEnvelope(errs) == Obj([errors |-> Arr(errs)])

\* req.validated = () => parsedValues
ValidatedAccessor(bundle) == [t |-> "fn", name |-> "validated", returns |-> bundle]

Call(fn, args) == [fn |-> fn, args |-> args]

LogEntry(level, message) == [level |-> level, message |-> message]

(***************************************************************************)
(* The configurations and requests explored                                *)
(***************************************************************************)
BodySchema == TypeObject(Obj([count |-> TypeNumber]))
QuerySchema == TypeObject(Obj([page |-> TypeNumber]))
ParamsFields == Obj([id |-> TypeString])

\* schema references: a composite schema, per-part mappings, and values
\* that are no schema reference at all
SchemaRefs ==
    { TypeObject(Obj([body |-> BodySchema, query |-> QuerySchema])),
      Obj([body |-> BodySchema, query |-> QuerySchema]),
      Obj([body |-> Obj([count |-> TypeNumber])]),
      Obj([query |-> QuerySchema, params |-> ParamsFields]),
      TypeObject(Obj([body |-> BodySchema, extra |-> TypeString])),
      TypeObject(Obj([body |-> BodySchema, extra |-> TypeStringDefault(Str("dflt"))])),
      EmptyObj,
      Obj([body |-> Str("x")]),
      Str("x"),
      Arr(<<>>) }

RouteOnerrorValues == {Fn("routeOnerror"), Str("handler"), Null, Bool(TRUE), Num(1), EmptyObj}

OverrideValues ==
    {Bool(TRUE), Bool(FALSE), Undef, Obj([parse |-> Bool(TRUE)]), Obj([parse |-> Bool(FALSE)])}

\* the per-route keys set beside the schema
Overrides ==
    {EmptyObj}
    \cup {Obj([onerror |-> h]) : h \in RouteOnerrorValues}
    \cup {Obj([validatorTypeboxOptions |-> o]) : o \in OverrideValues}
    \cup {Obj([onerror |-> Fn("routeOnerror"), validatorTypeboxOptions |-> Bool(TRUE)])}

Merge(a, b) == Obj([k \in Keys(a) \cup Keys(b) |-> IF k \in Keys(b) THEN b.f[k] ELSE a.f[k]])

Locations == {"root", "schema", "options"}

\* route parameters holding the schema reference at a location
Place(ref, loc, extra) ==
    CASE loc = "root" -> IF ref.t = "obj" THEN Merge(ref, extra) ELSE ref
      [] loc = "schema" -> Merge(Obj([schema |-> ref]), extra)
      [] OTHER -> Merge(Obj([options |-> Obj([schema |-> ref])]), extra)

\* onerror and validatorTypeboxOptions keys set below the top level
NestedOverrides ==
    { Obj([onerror |-> Fn("nestedOnerror")]),
      Obj([validatorTypeboxOptions |-> Bool(TRUE)]),
      Obj([onerror |-> Fn("nestedOnerror"), validatorTypeboxOptions |-> Bool(TRUE)]) }

\* the keys set at the top level of route parameters that nest their schema
TopOverrides ==
    { EmptyObj,
      Obj([onerror |-> Fn("routeOnerror")]),
      Obj([validatorTypeboxOptions |-> Bool(FALSE)]) }

NestedRefs ==
    { Obj([body |-> BodySchema, query |-> QuerySchema]),
      TypeObject(Obj([body |-> BodySchema, query |-> QuerySchema])) }

\* route parameters with the schema reference at a nested path and keys
\* inside the reference ("inside") or beside it in its parent ("beside")
PlaceNested(ref, where, nested, top) ==
    CASE where = "schema.inside" -> Merge(Obj([schema |-> Merge(ref, nested)]), top)
      [] where = "options.schema.inside" ->
             Merge(Obj([options |-> Obj([schema |-> Merge(ref, nested)])]), top)
      [] OTHER -> Merge(Obj([options |-> Merge(Obj([schema |-> ref]), nested)]), top)

NestedConfigs ==
    { PlaceNested(ref, where, nested, top) :
        ref \in NestedRefs,
        where \in {"schema.inside", "options.schema.inside", "options.beside"},
        nested \in NestedOverrides,
        top \in TopOverrides }

RouteConfigs ==
    {Undef}
    \cup {Place(ref, loc, extra) : ref \in SchemaRefs, loc \in Locations, extra \in Overrides}
    \cup NestedConfigs

Metas == {Undef} \cup {Obj([parameters |-> p]) : p \in RouteConfigs}

Bodies == {Obj([count |-> Str("42")]), Obj([count |-> Num(42)]), Obj([count |-> Str("abc")])}

Queries == {Obj([page |-> Str("7")]), Obj([page |-> Str("abc")])}

Requests ==
    { Obj([params |-> Obj([id |-> Str("42")]), body |-> b, query |-> q,
           headers |-> EmptyObj, cookies |-> Undef, files |-> Undef,
           extra |-> Str("live"), meta |-> m]) :
        b \in Bodies, q \in Queries, m \in Metas }

FactoryOptions == {Undef, Obj([parse |-> Bool(TRUE)]), Obj([parse |-> Bool(FALSE)])}

FactoryOnerrors == {Undef, Fn("factoryOnerror"), Str("handler"), Num(0)}

\* the key paths a schemaProperty names
KeyPaths == {<<"schema">>, <<"options", "schema">>, <<"missing">>}

RECURSIVE Written(_, _, _)
\* the key path segs written from segment i on, the segments whose index is
\* in brackets in bracket form ("[key]"), the others in dot form
Written(segs, brackets, i) ==
    IF i > Len(segs) THEN <<>>
    ELSE (IF i \in brackets THEN <<"[", segs[i], "]">>
          ELSE IF i = 1 THEN <<segs[i]>>
          ELSE <<".", segs[i]>>)
         \o Written(segs, brackets, i + 1)

\* every way of writing a key path
WrittenForms(segs) == {Written(segs, brackets, 1) : brackets \in SUBSET (1..Len(segs))}

SchemaProperties ==
    {Undef} \cup {PathStr(w) : w \in UNION {WrittenForms(segs) : segs \in KeyPaths}}

(***************************************************************************)
(* State                                                                   *)
(***************************************************************************)
VARIABLES
    options,        \* validatorTypebox argument 1
    onerror,        \* validatorTypebox argument 2
    schemaProperty, \* validatorTypebox argument 3
    req,            \* the request being handled
    received,       \* the request as it was received
    res,            \* the response: status code and JSON body written
    calls,          \* the calls made to next and to error handlers, in order
    log,            \* the Log calls made, in order
    pc,             \* position in validatorTypeboxRequestHandler
    schema,         \* const schema
    values,         \* const values
    parsedValues,   \* let parsedValues
    parseEnabled,   \* const parseEnabled
    errors,         \* const errors
    handled         \* the number of requests the middleware has handled

\* the number of requests explored for one middleware
MaxRequests == 2

factory == <<options, onerror, schemaProperty>>
locals == <<schema, values, parsedValues, parseEnabled, errors>>
vars == <<options, onerror, schemaProperty, req, received, res, calls, log, pc,
          schema, values, parsedValues, parseEnabled, errors, handled>>

FreshResponse == [statusCode |-> 200, body |-> Undef]

\* the middleware is created and waits for a request
Init ==
    /\ options \in FactoryOptions
    /\ onerror \in FactoryOnerrors
    /\ schemaProperty \in SchemaProperties
    /\ req = Undef
    /\ received = Undef
    /\ res = FreshResponse
    /\ calls = <<>>
    /\ log = <<>>
    /\ pc = "idle"
    /\ schema = Null
    /\ values = EmptyObj
    /\ parsedValues = EmptyObj
    /\ parseEnabled = FALSE
    /\ errors = <<>>
    /\ handled = 0

(***************************************************************************)
(* validatorTypeboxRequestHandler, step by step                            *)
(***************************************************************************)
\* variant: the skip path returns without calling next
NoSchemaStops ==
    /\ pc = "start"
    /\ ~Truthy(retrieveSchema(RouteParameters(req), schemaProperty))
    /\ log' = Append(log, LogEntry("silly", "no schema to validate"))
    /\ pc' = "done"
    /\ UNCHANGED <<factory, handled, req, received, res, calls, locals>>

\* lines 231-235: no schema, the request goes on
NoSchema ==
    /\ pc = "start"
    /\ ~Truthy(retrieveSchema(RouteParameters(req), schemaProperty))
    /\ log' = Append(log, LogEntry("silly", "no schema to validate"))
    /\ calls' = Append(calls, Call("next", <<>>))
    /\ pc' = "done"
    /\ UNCHANGED <<factory, handled, req, received, res, locals>>

\* variant: the resolved schema is stored back on the route configuration
\* (req.meta.parameters = schema), to be found resolved by the next request
SchemaFoundStoresSchema ==
    /\ pc = "start"
    /\ Truthy(retrieveSchema(RouteParameters(req), schemaProperty))
    /\ schema' = retrieveSchema(RouteParameters(req), schemaProperty)
    /\ values' = buildValueToValidate(schema', req)
    /\ parsedValues' = values'
    /\ parseEnabled' = ParseEnabled(RouteParameters(req), options)
    /\ req' = Put(req, "meta", Put(Get(req, "meta"), "parameters", schema'))
    /\ log' = Append(log, LogEntry("debug", "validating"))
    /\ pc' = IF parseEnabled' THEN "parse" ELSE "validate"
    /\ UNCHANGED <<factory, handled, received, res, calls, errors>>

\* variant: the per-route validatorTypeboxOptions is read from the object
\* schemaProperty names, where the schema is, not from the top of the route
\* parameters
SchemaFoundNestedOverride ==
    /\ pc = "start"
    /\ Truthy(retrieveSchema(RouteParameters(req), schemaProperty))
    /\ schema' = retrieveSchema(RouteParameters(req), schemaProperty)
    /\ values' = buildValueToValidate(schema', req)
    /\ parsedValues' = values'
    /\ parseEnabled' = ParseEnabled(retrieveParametersValue(RouteParameters(req), schemaProperty),
                                    options)
    /\ log' = Append(log, LogEntry("debug", "validating"))
    /\ pc' = IF parseEnabled' THEN "parse" ELSE "validate"
    /\ UNCHANGED <<factory, handled, req, received, res, calls, errors>>

\* lines 231-245: a schema is found, the bundle built, parsing decided
SchemaFound ==
    /\ pc = "start"
    /\ Truthy(retrieveSchema(RouteParameters(req), schemaProperty))
    /\ schema' = retrieveSchema(RouteParameters(req), schemaProperty)
    /\ values' = buildValueToValidate(schema', req)
    /\ parsedValues' = values'
    /\ parseEnabled' = ParseEnabled(RouteParameters(req), options)
    /\ log' = Append(log, LogEntry("debug", "validating"))
    /\ pc' = IF parseEnabled' THEN "parse" ELSE "validate"
    /\ UNCHANGED <<factory, handled, req, received, res, calls, errors>>

\* variant: the bundle is converted without being asserted (C.Convert in the
\* place of C.Parse), so a bundle that fails the schema is merged as well
ParseReturnsUnchecked ==
    /\ pc = "parse"
    /\ parsedValues' = CParse(schema, parsedValues)
    /\ req' = Extend(req, WithoutQuery(parsedValues'))
    /\ log' = log \o <<LogEntry("debug", "Parsed and validated"),
                       LogEntry("debug", "Validated query")>>
    /\ pc' = "validate"
    /\ UNCHANGED <<factory, handled, received, res, calls, schema, values, parseEnabled, errors>>

\* lines 246-253: C.Parse returns, the parsed parts are merged into req
ParseReturns ==
    /\ pc = "parse"
    /\ CParseReturns(schema, parsedValues)
    /\ parsedValues' = CParse(schema, parsedValues)
    /\ req' = Extend(req, WithoutQuery(parsedValues'))
    /\ log' = log \o <<LogEntry("debug", "Parsed and validated"),
                       LogEntry("debug", "Validated query")>>
    /\ pc' = "validate"
    /\ UNCHANGED <<factory, handled, received, res, calls, schema, values, parseEnabled, errors>>

\* variant: the bundle is converted in place before C.Parse throws
ParseThrowsConverted ==
    /\ pc = "parse"
    /\ parsedValues' = CParse(schema, parsedValues)
    /\ log' = Append(log, LogEntry("error", "parse"))
    /\ pc' = "validate"
    /\ UNCHANGED <<factory, handled, req, received, res, calls, schema, values,
                   parseEnabled, errors>>

\* lines 247, 254-256: C.Parse throws (the value does not satisfy the schema,
\* or a decoding callback of the schema raises), the exception is logged
ParseThrows ==
    /\ pc = "parse"
    /\ log' = Append(log, LogEntry("error", "parse"))
    /\ pc' = "validate"
    /\ UNCHANGED <<factory, handled, req, received, res, calls, locals>>

\* variant: the test is on the array, not on its length (if (errors))
ValidateArrayTruthy ==
    /\ pc = "validate"
    /\ errors' = CErrors(schema, parsedValues, "")
    /\ pc' = "invalid"
    /\ UNCHANGED <<factory, handled, req, received, res, calls, log, schema, values,
                   parsedValues, parseEnabled>>

\* variant: the accessor is attached before the errors are looked at
ValidateAttaches ==
    /\ pc = "validate"
    /\ errors' = CErrors(schema, parsedValues, "")
    /\ req' = Put(req, "validated", ValidatedAccessor(parsedValues))
    /\ pc' = IF errors' # <<>> THEN "invalid" ELSE "valid"
    /\ UNCHANGED <<factory, handled, received, res, calls, log, schema, values,
                   parsedValues, parseEnabled>>

\* line 258-259: the errors of the bundle are collected
Validate ==
    /\ pc = "validate"
    /\ errors' = CErrors(schema, parsedValues, "")
    /\ pc' = IF errors' # <<>> THEN "invalid" ELSE "valid"
    /\ UNCHANGED <<factory, handled, req, received, res, calls, log, schema, values,
                   parsedValues, parseEnabled>>

\* lines 260-265: the per-route error handler is called
RouteOnerror ==
    /\ pc = "invalid"
    /\ ErrorSink(RouteParameters(req), onerror) = "route"
    /\ log' = log \o <<LogEntry("error", "Invalid request"),
                       LogEntry("debug", "Custom function onerror")>>
    /\ calls' = Append(calls, Call(Get(RouteParameters(req), "onerror").name,
                                   <<ErrorEnvelope(errors), "req", "res", "next">>))
    /\ pc' = "done"
    /\ UNCHANGED <<factory, handled, req, received, res, locals>>

\* lines 260, 266-269: the error handler of the factory is called
FactoryOnerror ==
    /\ pc = "invalid"
    /\ ErrorSink(RouteParameters(req), onerror) = "factory"
    /\ log' = log \o <<LogEntry("error", "Invalid request"),
                       LogEntry("debug", "Custom function onerror")>>
    /\ calls' = Append(calls, Call(onerror.name,
                                   <<ErrorEnvelope(errors), "req", "res", "next">>))
    /\ pc' = "done"
    /\ UNCHANGED <<factory, handled, req, received, res, locals>>

\* variant: the return of line 277 is missing, next is called after the 400
Respond400FallsThrough ==
    /\ pc = "invalid"
    /\ ErrorSink(RouteParameters(req), onerror) = "response"
    /\ log' = log \o <<LogEntry("error", "Invalid request")>>
                  \o (IF Truthy(onerror)
                      THEN <<LogEntry("warn", "Expected arg 2 (onerror) to be a function")>>
                      ELSE <<>>)
                  \o <<LogEntry("info", "Valid request")>>
    /\ res' = [statusCode |-> 400, body |-> ErrorEnvelope(errors)]
    /\ req' = Put(req, "validated", ValidatedAccessor(parsedValues))
    /\ calls' = Append(calls, Call("next", <<>>))
    /\ pc' = "done"
    /\ UNCHANGED <<factory, handled, received, locals>>

\* variant: the else branch of lines 270-275 is missing, nothing is logged
\* about a factory onerror that is no function
Respond400Silent ==
    /\ pc = "invalid"
    /\ ErrorSink(RouteParameters(req), onerror) = "response"
    /\ log' = log \o <<LogEntry("error", "Invalid request")>>
    /\ res' = [statusCode |-> 400, body |-> ErrorEnvelope(errors)]
    /\ pc' = "done"
    /\ UNCHANGED <<factory, handled, req, received, calls, locals>>

\* lines 260, 266-277: no handler function, the 400 response is written
Respond400 ==
    /\ pc = "invalid"
    /\ ErrorSink(RouteParameters(req), onerror) = "response"
    /\ log' = log \o <<LogEntry("error", "Invalid request")>>
                  \o (IF Truthy(onerror)
                      THEN <<LogEntry("warn", "Expected arg 2 (onerror) to be a function")>>
                      ELSE <<>>)
    /\ res' = [statusCode |-> 400, body |-> ErrorEnvelope(errors)]
    /\ pc' = "done"
    /\ UNCHANGED <<factory, handled, req, received, calls, locals>>

\* line 280: the accessor is attached
AttachValidated ==
    /\ pc = "valid"
    /\ req' = Put(req, "validated", ValidatedAccessor(parsedValues))
    /\ pc' = "attached"
    /\ UNCHANGED <<factory, handled, received, res, calls, log, locals>>

\* lines 281-282: the request goes on
CallNext ==
    /\ pc = "attached"
    /\ log' = Append(log, LogEntry("info", "Valid request"))
    /\ calls' = Append(calls, Call("next", <<>>))
    /\ pc' = "done"
    /\ UNCHANGED <<factory, handled, req, received, res, locals>>

\* line 230: the router calls the middleware with a request
Receive ==
    /\ pc = "idle"
    /\ handled < MaxRequests
    /\ \E r \in Requests :
          /\ req' = r
          /\ received' = r
    /\ pc' = "start"
    /\ UNCHANGED <<factory, handled, res, calls, log, locals>>

\* the handler has returned: its locals, the request and the response are
\* dropped and the middleware waits for the next request
Return ==
    /\ pc = "done"
    /\ req' = Undef
    /\ received' = Undef
    /\ res' = FreshResponse
    /\ calls' = <<>>
    /\ log' = <<>>
    /\ pc' = "idle"
    /\ schema' = Null
    /\ values' = EmptyObj
    /\ parsedValues' = EmptyObj
    /\ parseEnabled' = FALSE
    /\ errors' = <<>>
    /\ handled' = handled + 1
    /\ UNCHANGED factory

Next ==
    \/ NoSchema
    \/ SchemaFound
    \/ ParseReturns
    \/ ParseThrows
    \/ Validate
    \/ RouteOnerror
    \/ FactoryOnerror
    \/ Respond400
    \/ AttachValidated
    \/ CallNext
    \/ Receive
    \/ Return

Spec == Init /\ [][Next]_vars

(***************************************************************************)
(* Properties                                                              *)
(***************************************************************************)
\* the single call next()
NextCall == Call("next", <<>>)

\* the call of an error handler with (err, req, res, next)
HandlerCall(name, errs) == Call(name, <<ErrorEnvelope(errs), "req", "res", "next">>)

\* the route parameters of the request being handled
Parameters == RouteParameters(received)

\* the schema the request being handled resolves to
Resolved == retrieveSchema(Parameters, schemaProperty)

\* the bundle of the request as it was received
OriginalBundle == buildValueToValidate(Resolved, received)

\* the errors the validator reports for the bundle it is given
Reported == CErrors(schema, parsedValues, "")

Logged(level, message) == \E i \in 1..Len(log) : log[i] = LogEntry(level, message)

RouteHandlerIsFunction == Get(Parameters, "onerror").t = "fn"

FactoryHandlerIsFunction == onerror.t = "fn"

\* C1: when schema resolution yields no schema, the middleware ends having
\* called next exactly once with no argument; it has run no validation,
\* called no error handler, written no response and left the request as it
\* was received (req.validated is not set).
C1_SkipPath ==
    (pc = "done" /\ ~Truthy(Resolved)) =>
        /\ calls = <<NextCall>>
        /\ res = FreshResponse
        /\ req = received
        /\ ~HasKey(req, "validated")
        /\ ~Logged("debug", "validating")
        /\ errors = <<>>

\* a request whose schema reference is found but is no composite schema has
\* gone through the skip path
C1_Witness ==
    /\ pc = "done"
    /\ Truthy(retrieveParametersValue(Parameters, schemaProperty))
    /\ ~Truthy(Resolved)
    /\ calls = <<NextCall>>

\* C2: when a schema is resolved and the validator reports no error, the
\* middleware calls next exactly once, calls no error handler and writes no
\* 400 response.
C2_ValidGoesOn ==
    (Truthy(Resolved) /\ pc \in {"valid", "attached", "done"} /\ Reported = <<>>) =>
        /\ res = FreshResponse
        /\ calls = IF pc = "done" THEN <<NextCall>> ELSE <<>>

\* a valid request has been passed on while error handlers are configured at
\* both levels
C2_Witness ==
    /\ pc = "done"
    /\ Truthy(Resolved)
    /\ Reported = <<>>
    /\ RouteHandlerIsFunction
    /\ FactoryHandlerIsFunction
    /\ calls = <<NextCall>>

\* C3: when the validator reports errors and no error-handler function is
\* configured at the route or the factory level, the middleware answers 400
\* with the body { errors: E }, E being the whole error sequence of the
\* validator in its order, and does not call next.
C3_Default400 ==
    (pc = "done" /\ Truthy(Resolved) /\ Reported # <<>>
        /\ ~RouteHandlerIsFunction /\ ~FactoryHandlerIsFunction) =>
        /\ res.statusCode = 400
        /\ res.body = Obj([errors |-> Arr(Reported)])
        /\ calls = <<>>

\* a 400 response carrying two errors has been written
C3_Witness ==
    /\ pc = "done"
    /\ ~RouteHandlerIsFunction
    /\ ~FactoryHandlerIsFunction
    /\ Len(Reported) >= 2
    /\ res.statusCode = 400
    /\ Len(res.body.f.errors.items) >= 2

\* C4: on a validation failure exactly one sink is used, in priority order:
\* the per-route onerror if it is a function, else the onerror of the
\* factory if it is a function, else the 400 response; the handler chosen is
\* called once with (error envelope, req, res, next).
C4_SinkPriority ==
    (pc = "done" /\ Truthy(Resolved) /\ Reported # <<>>) =>
        IF RouteHandlerIsFunction
        THEN calls = <<HandlerCall("routeOnerror", Reported)>> /\ res = FreshResponse
        ELSE IF FactoryHandlerIsFunction
        THEN calls = <<HandlerCall("factoryOnerror", Reported)>> /\ res = FreshResponse
        ELSE calls = <<>> /\ res.statusCode = 400

\* with handler functions at both levels, only the per-route one was called
C4_Witness ==
    /\ pc = "done"
    /\ Reported # <<>>
    /\ RouteHandlerIsFunction
    /\ FactoryHandlerIsFunction
    /\ calls = <<HandlerCall("routeOnerror", Reported)>>
    /\ res = FreshResponse

\* a per-route onerror that is present and is no function
RouteHandlerMisconfigured ==
    HasKey(Parameters, "onerror") /\ Get(Parameters, "onerror").t \notin {"fn", "undef"}

\* C5: a per-route onerror that is present but is no function is ignored on
\* a validation failure: the handler of the factory is called if it is a
\* function, otherwise the 400 response is written.
C5_NonFunctionRouteHandler ==
    (pc = "done" /\ Truthy(Resolved) /\ Reported # <<>> /\ RouteHandlerMisconfigured) =>
        /\ FactoryHandlerIsFunction =>
             calls = <<HandlerCall("factoryOnerror", Reported)>> /\ res = FreshResponse
        /\ ~FactoryHandlerIsFunction =>
             calls = <<>> /\ res = [statusCode |-> 400, body |-> ErrorEnvelope(Reported)]

\* the route sets onerror to a string and the handler of the factory was
\* called
C5_Witness ==
    /\ pc = "done"
    /\ Reported # <<>>
    /\ Get(Parameters, "onerror") = Str("handler")
    /\ calls = <<HandlerCall("factoryOnerror", Reported)>>

\* the per-route value of validatorTypeboxOptions
Override == Get(Parameters, "validatorTypeboxOptions")

\* the handler is past the decision on parsing
ParsingDecided == Truthy(Resolved) /\ pc \notin {"idle", "start"}

\* C.Parse was called and returned / threw
ParseReturned == Logged("debug", "Parsed and validated")

ParseThrew == Logged("error", "parse")

\* C6: parsing follows the per-route override when it is a boolean (true
\* enables it, false disables it, whatever the factory option is) and the
\* factory option options.parse only when the per-route value is undefined;
\* C.Parse is called exactly when parsing is enabled.
C6_ParseOverride ==
    ParsingDecided =>
        /\ Override = Bool(TRUE) => parseEnabled
        /\ Override = Bool(FALSE) => ~parseEnabled
        /\ Override = Undef => (parseEnabled <=> Get(options, "parse") = Bool(TRUE))
        /\ pc = "parse" => parseEnabled
        /\ (ParseReturned \/ ParseThrew) => parseEnabled
        /\ (parseEnabled /\ pc # "parse") => (ParseReturned \/ ParseThrew)

\* a route with validatorTypeboxOptions: false is validated without parsing
\* by a middleware created with parse: true
C6_Witness ==
    /\ pc = "done"
    /\ Truthy(Resolved)
    /\ Override = Bool(FALSE)
    /\ Get(options, "parse") = Bool(TRUE)
    /\ ~parseEnabled
    /\ ~ParseReturned

\* C7: a structured per-route override validatorTypeboxOptions: { parse: true }
\* enables parsing for the route and { parse: false } disables it, whatever
\* the factory option is.
C7_StructuredOverride ==
    ParsingDecided =>
        /\ Override = Obj([parse |-> Bool(TRUE)]) => parseEnabled
        /\ Override = Obj([parse |-> Bool(FALSE)]) => ~parseEnabled

\* the parsed bundle C.Parse returns for the request as received
ParsedBundle == CParse(Resolved, OriginalBundle)

\* C8: when parsing is enabled, C.Parse returns and the validator reports no
\* error, then once next is called req.validated() returns the parsed bundle
\* (its query included), req.query is still the query received, and every
\* other declared part of the request holds its parsed value.
C8_ParsedRequest ==
    (pc = "done" /\ ParseReturned /\ errors = <<>> /\ calls = <<NextCall>>) =>
        /\ parseEnabled
        /\ Get(req, "validated") = ValidatedAccessor(ParsedBundle)
        /\ Get(req, "query") = Get(received, "query")
        /\ \A p \in DeclaredParts(Resolved) \ {"query"} :
              Get(req, p) = Get(ParsedBundle, p)
        /\ \A p \in DeclaredParts(Resolved) :
              Get(ParsedBundle, p) = Convert(Get(Resolved, "properties").f[p], Get(received, p))

\* body and query were both converted: the body of the request is the
\* converted one, its query the received one, the accessor gives the
\* converted query
C8_Witness ==
    /\ pc = "done"
    /\ ParseReturned
    /\ calls = <<NextCall>>
    /\ Get(received, "body") = Obj([count |-> Str("42")])
    /\ Get(req, "body") = Obj([count |-> Num(42)])
    /\ Get(req, "query") = Obj([page |-> Str("7")])
    /\ Get(Get(req, "validated").returns, "query") = Obj([page |-> Num(7)])

\* C9: when C.Parse throws, no part of the request is overwritten, the
\* validator is run on the bundle as received, the outcome follows from its
\* errors alone (next when there is none, an error sink otherwise), and on
\* success req.validated() returns the bundle as received.
C9_ParseThrowsFallsBack ==
    ParseThrew =>
        /\ pc \in {"validate", "valid", "invalid", "attached", "done"}
        /\ \A p \in PartNames : Get(req, p) = Get(received, p)
        /\ parsedValues = OriginalBundle
        /\ pc \in {"valid", "invalid", "attached", "done"} =>
              /\ errors = CErrors(Resolved, OriginalBundle, "")
              /\ pc \in {"valid", "attached"} => errors = <<>>
              /\ pc = "invalid" => errors # <<>>
        /\ pc = "done" =>
              IF errors = <<>>
              THEN /\ calls = <<NextCall>>
                   /\ res = FreshResponse
                   /\ Get(req, "validated") = ValidatedAccessor(OriginalBundle)
              ELSE /\ NextCall \notin {calls[i] : i \in 1..Len(calls)}
                   /\ ~HasKey(req, "validated")
                   /\ (calls = <<>>) <=> (res.statusCode = 400)

\* C.Parse threw on a request that is valid as received; the request went on
\* with the bundle as received
C9_Witness ==
    /\ pc = "done"
    /\ ParseThrew
    /\ errors = <<>>
    /\ calls = <<NextCall>>
    /\ Get(req, "validated") = ValidatedAccessor(OriginalBundle)
    /\ Keys(OriginalBundle) # {}

\* C10: req.validated is attached if and only if a schema was resolved and
\* validation produced no error: never on the skip path, never on a failure
\* path, and on the success path before next is called.
C10_AccessorAttached ==
    /\ HasKey(req, "validated") <=>
          (Truthy(Resolved) /\ pc \in {"attached", "done"} /\ Reported = <<>>)
    /\ (pc = "attached") => calls = <<>>
    /\ (Truthy(Resolved) /\ NextCall \in {calls[i] : i \in 1..Len(calls)}) =>
          HasKey(req, "validated")

\* the accessor is attached and next has not been called yet
C10_Witness ==
    /\ pc = "attached"
    /\ HasKey(req, "validated")
    /\ calls = <<>>

\* the handler holds the bundle built for a resolved schema
BundleBuilt == pc \in {"parse", "validate", "valid", "invalid", "attached", "done"} /\ schema # Null

\* C11: the bundle built by buildValueToValidate has as keys exactly the
\* field names declared by the composite schema that are among params, body,
\* query, headers, cookies and files, each mapped to the value the request
\* holds for that part; parts the schema does not declare are absent,
\* whatever else the request carries.
C11_BundleKeys ==
    BundleBuilt =>
        /\ Keys(values) = Keys(Get(schema, "properties"))
                            \cap {"params", "body", "query", "headers", "cookies", "files"}
        /\ \A k \in Keys(values) : values.f[k] = Get(received, k)
        /\ \A k \in Keys(received) \ Keys(Get(schema, "properties")) : ~HasKey(values, k)

\* a composite schema declares body and a field that is no request part; the
\* request carries that field, a query and params: the bundle holds body only
C11_Witness ==
    /\ BundleBuilt
    /\ Keys(Get(schema, "properties")) = {"body", "extra"}
    /\ Keys(values) = {"body"}
    /\ values.f["body"] = Get(received, "body")
    /\ {"extra", "query", "params", "headers"} \subseteq Keys(received)

\* the schema reference the lookup finds for the request being handled
Reference == retrieveParametersValue(Parameters, schemaProperty)

\* the recognised part keys of a mapping whose values are objects
ObjectParts(mapping) ==
    {p \in {"params", "body", "query", "headers", "cookies", "files"} :
        Get(mapping, p).t \in {"obj", "arr"}}

\* the reference is a mapping that is not itself a composite schema
ReferenceIsMapping ==
    /\ pc \notin {"idle", "start"}
    /\ Reference.t \in {"obj", "arr"}
    /\ Get(Reference, "~kind") # Str("Object")

\* C12: a schema reference that is a per-part mapping resolves to a composite
\* object schema whose declared fields are exactly the recognised part keys
\* with an object value: a part that is a schema is kept as it is, a part
\* that is a plain field map becomes Type.Object of that field map.
C12_MappingNormalised ==
    (ReferenceIsMapping /\ ObjectParts(Reference) # {}) =>
        /\ Get(schema, "~kind") = Str("Object")
        /\ Get(schema, "type") = Str("object")
        /\ Keys(schema) = {"~kind", "type", "properties"}
        /\ Keys(Get(schema, "properties")) = ObjectParts(Reference)
        /\ \A p \in ObjectParts(Reference) :
              Get(schema, "properties").f[p] =
                 IF HasKey(Reference.f[p], "~kind") THEN Reference.f[p]
                 ELSE Obj(("~kind" :> Str("Object")) @@ ("type" :> Str("object"))
                          @@ ("properties" :> Reference.f[p]))

\* the mapping { query: <schema>, params: <field map> } is resolved: query is
\* kept, params is wrapped
C12_Witness ==
    /\ ReferenceIsMapping
    /\ ObjectParts(Reference) = {"query", "params"}
    /\ Get(Reference, "query") = QuerySchema
    /\ Get(Reference, "params") = ParamsFields
    /\ Get(Get(schema, "properties"), "query") = QuerySchema
    /\ Get(Get(schema, "properties"), "params") = TypeObject(ParamsFields)

\* C13: a schema reference that is a mapping, is no schema and has none of
\* the six part keys with an object value (only onerror,
\* validatorTypeboxOptions or unrelated keys, say) resolves to null: the
\* request goes through the skip path without validation.
C13_NoPartsNoSchema ==
    (ReferenceIsMapping /\ ObjectParts(Reference) = {}) =>
        /\ schema = Null
        /\ pc = "done"
        /\ calls = <<NextCall>>
        /\ res = FreshResponse
        /\ req = received
        /\ ~Logged("debug", "validating")

\* the reference holds nothing but an onerror key; the request went on
C13_Witness ==
    /\ ReferenceIsMapping
    /\ Keys(Reference) = {"onerror"}
    /\ schema = Null
    /\ pc = "done"
    /\ calls = <<NextCall>>

\* the key path the schemaProperty of the middleware is a written form of
SegmentsOf(property) == CHOOSE segs \in KeyPaths : property.pieces \in WrittenForms(segs)

\* the key path written in dot form throughout
DotForm(segs) == PathStr(Written(segs, {}, 1))

\* C14: whatever the route configuration and the key segments, the schema
\* path written in bracket form, in dot form or in any mix of the two gives
\* the same result from retrieveParametersValue (and so the same schema).
C14_BracketDotEquivalent ==
    (pc # "idle" /\ schemaProperty # Undef) =>
        /\ \A w \in WrittenForms(SegmentsOf(schemaProperty)) :
              retrieveParametersValue(Parameters, PathStr(w)) =
                 retrieveParametersValue(Parameters, DotForm(SegmentsOf(schemaProperty)))
        /\ pc # "start" =>
              schema = LET found == retrieveSchema(Parameters, DotForm(SegmentsOf(schemaProperty)))
                       IN IF Truthy(found) THEN found ELSE Null

\* the middleware was created with "[options][schema]" and has resolved the
\* schema found at options.schema
C14_Witness ==
    /\ schemaProperty = PathStr(<<"[", "options", "]", "[", "schema", "]">>)
    /\ pc = "validate"
    /\ schema # Null
    /\ Reference = Get(Get(Parameters, "options"), "schema")

RECURSIVE Follow(_, _, _)
\* the value reached from v by the keys segs[i..], undefined when a key is
\* absent or a value on the way is no object
Follow(v, segs, i) ==
    IF i > Len(segs) THEN v
    ELSE IF v.t = "obj" /\ segs[i] \in DOMAIN v.f THEN Follow(v.f[segs[i]], segs, i + 1)
    ELSE [t |-> "undef"]

\* C15: without schemaProperty the route parameters object itself is the
\* schema reference; with it the reference is the value reached by following
\* its segments key by key from the route parameters, and the lookup gives
\* null when a segment is absent, a value on the way is no object, or the
\* final value is no object or is an array.  A null reference ends in the
\* skip path.
C15_ReferenceLookup ==
    pc # "idle" =>
        /\ schemaProperty = Undef =>
              Reference = IF Parameters.t \in {"obj", "arr"} THEN Parameters ELSE Null
        /\ schemaProperty # Undef =>
              Reference = LET reached == Follow(Parameters, SegmentsOf(schemaProperty), 1)
                          IN IF reached.t = "obj" THEN reached ELSE Null
        /\ (pc # "start" /\ Reference = Null) => (schema = Null /\ calls = <<NextCall>>)

\* the path leads to an array: the lookup gave null and the request went on
C15_Witness ==
    /\ pc = "done"
    /\ schemaProperty = PathStr(<<"schema">>)
    /\ Get(Parameters, "schema") = Arr(<<>>)
    /\ Reference = Null
    /\ calls = <<NextCall>>

\* the terminal outcomes of an invocation
OutcomeSkip == schema = Null /\ calls = <<NextCall>> /\ res = FreshResponse

OutcomeNext == schema # Null /\ errors = <<>> /\ calls = <<NextCall>> /\ res = FreshResponse

OutcomeRoute ==
    /\ schema # Null /\ errors # <<>> /\ res = FreshResponse
    /\ calls = <<HandlerCall("routeOnerror", errors)>>

OutcomeFactory ==
    /\ schema # Null /\ errors # <<>> /\ res = FreshResponse
    /\ calls = <<HandlerCall("factoryOnerror", errors)>>

OutcomeResponse == schema # Null /\ errors # <<>> /\ calls = <<>> /\ res.statusCode = 400

OutcomesReached ==
    {o \in {"skip", "next", "route", "factory", "response"} :
        \/ o = "skip" /\ OutcomeSkip
        \/ o = "next" /\ OutcomeNext
        \/ o = "route" /\ OutcomeRoute
        \/ o = "factory" /\ OutcomeFactory
        \/ o = "response" /\ OutcomeResponse}

\* C16: every invocation of the middleware reaches exactly one terminal
\* outcome: Skip, Next, or the dispatch of the errors to exactly one of the
\* per-route handler, the handler of the factory and the 400 response.  It
\* never calls next and dispatches an error, never calls next twice, and
\* never stops before an outcome.
C16_OneOutcome ==
    /\ Len(calls) <= 1
    /\ pc = "done" => Cardinality(OutcomesReached) = 1
    /\ pc \notin {"idle", "done"} =>
          /\ calls = <<>>
          /\ res = FreshResponse
          /\ pc \in {"start", "parse", "validate", "valid", "invalid", "attached"}
          /\ pc = "invalid" =>
                ErrorSink(RouteParameters(req), onerror) \in {"route", "factory", "response"}

\* an invocation ended with the 400 response and nothing else
C16_Witness ==
    /\ pc = "done"
    /\ OutcomesReached = {"response"}
    /\ NextCall \notin {calls[i] : i \in 1..Len(calls)}

\* the onerror of the factory is present and is no function
FactoryHandlerMisconfigured == onerror.t \notin {"fn", "undef"}

\* the warning of lines 271-274
WarnedNoFunction == Logged("warn", "Expected arg 2 (onerror) to be a function")

\* the failure went past both handlers to the 400 response
FellToResponse ==
    calls = <<>> /\ res = [statusCode |-> 400, body |-> ErrorEnvelope(Reported)]

\* C17 as stated: whenever an onerror of the route or of the factory is
\* present and is no function, a validation failure logs a warning.
C17_WarnsOnAnyNonFunction ==
    (/\ pc = "done"
     /\ Truthy(Resolved)
     /\ Reported # <<>>
     /\ RouteHandlerMisconfigured \/ FactoryHandlerMisconfigured) => WarnedNoFunction

\* C17: on a validation failure the warning is logged exactly when no
\* per-route function took the failure and the onerror of the factory is
\* truthy and no function; an onerror of the route that is no function
\* is passed over without a log entry of its own.  Either one is ignored and
\* the failure falls through to the next sink: past the route to the factory
\* function or the 400 response, past the factory to the 400 response.
C17_WarnsOnFactoryNonFunction ==
    (pc = "done" /\ Truthy(Resolved) /\ Reported # <<>>) =>
        /\ WarnedNoFunction <=>
              (~RouteHandlerIsFunction /\ Truthy(onerror) /\ ~FactoryHandlerIsFunction)
        /\ (RouteHandlerMisconfigured /\ FactoryHandlerIsFunction) =>
              calls = <<HandlerCall("factoryOnerror", Reported)>> /\ res = FreshResponse
        /\ (RouteHandlerMisconfigured /\ ~FactoryHandlerIsFunction) => FellToResponse
        /\ (FactoryHandlerMisconfigured /\ ~RouteHandlerIsFunction) => FellToResponse
        /\ (FactoryHandlerMisconfigured /\ RouteHandlerIsFunction) =>
              calls = <<HandlerCall("routeOnerror", Reported)>> /\ res = FreshResponse

\* the factory was given a string as onerror, the route has no function: the
\* warning is logged and the 400 response written
C17_Witness ==
    /\ pc = "done"
    /\ Reported # <<>>
    /\ onerror = Str("handler")
    /\ RouteHandlerMisconfigured
    /\ WarnedNoFunction
    /\ FellToResponse

\* some part of the request no longer holds the value it arrived with
PartsOverwritten == \E p \in PartNames : Get(req, p) # Get(received, p)

\* the invocation is on, or has ended on, the failure branch
OnFailureBranch == pc = "invalid" \/ (pc = "done" /\ Truthy(Resolved) /\ Reported # <<>>)

\* C18 as stated: a part of the request is overwritten only after the
\* validator has reported zero errors.
C18_OverwriteAfterValid ==
    PartsOverwritten => (pc \in {"valid", "attached", "done"} /\ errors = <<>>)

\* C18: a part of the request is overwritten only by a C.Parse that returned,
\* which is before C.Errors is called; the bundle C.Parse returned satisfies
\* the schema, so wherever the failure branch is taken the parts of the
\* request hold the values they arrived with.
C18_OverwriteOnlyOnParseReturn ==
    /\ PartsOverwritten =>
          /\ parseEnabled
          /\ ParseReturned
          /\ pc \in {"validate", "valid", "attached", "done"}
          /\ Reported = <<>>
    /\ OnFailureBranch => ~PartsOverwritten
    /\ (pc \in {"validate", "valid", "invalid", "attached", "done"} /\ ~ParseReturned) =>
          ~PartsOverwritten

\* C.Parse has returned and changed a part, C.Errors has not been called yet
C18_Witness ==
    /\ pc = "validate"
    /\ ParseReturned
    /\ PartsOverwritten

\* parsing is switched off: the factory was given no parse option or a false
\* one, and the route does not switch parsing on
ParsingDisabled ==
    /\ pc # "idle"
    /\ ~Truthy(Get(options, "parse"))
    /\ Override \notin {Bool(TRUE), Obj([parse |-> Bool(TRUE)])}

\* the values the request arrived with, for the parts the schema declares
LiveBundle == Obj([p \in DeclaredParts(Resolved) |-> Get(received, p)])

\* C19: with parsing disabled no part of the request (params, body, query,
\* headers, cookies, files) is ever overwritten, C.Parse is never called, and
\* on success req.validated() returns the bundle of the values the request
\* arrived with for the declared parts.
C19_DisabledLeavesRequest ==
    ParsingDisabled =>
        /\ \A p \in PartNames : Get(req, p) = Get(received, p)
        /\ ~parseEnabled
        /\ pc # "parse"
        /\ ~ParseReturned /\ ~ParseThrew
        /\ (pc = "done" /\ Truthy(Resolved) /\ Reported = <<>>) =>
              /\ calls = <<NextCall>>
              /\ Get(req, "validated") = ValidatedAccessor(LiveBundle)

\* the route switches parsing off with { parse: false }, the request is
\* valid as it arrived and went on with its live values
C19_Witness ==
    /\ pc = "done"
    /\ ParsingDisabled
    /\ Override = Obj([parse |-> Bool(FALSE)])
    /\ calls = <<NextCall>>
    /\ Get(req, "validated") = ValidatedAccessor(LiveBundle)
    /\ Get(LiveBundle, "body") = Obj([count |-> Num(42)])

\* what the request being handled leads to when it is the only request the
\* middleware ever sees: a function of the arguments of the factory, of the
\* request as received and of whether C.Parse returned
AloneBundle == IF ParseReturned THEN CParse(Resolved, OriginalBundle) ELSE OriginalBundle

AloneErrors == CErrors(Resolved, AloneBundle, "")

AloneCalls ==
    IF ~Truthy(Resolved) \/ AloneErrors = <<>> THEN <<NextCall>>
    ELSE CASE ErrorSink(Parameters, onerror) = "route" ->
                  <<HandlerCall(Get(Parameters, "onerror").name, AloneErrors)>>
           [] ErrorSink(Parameters, onerror) = "factory" ->
                  <<HandlerCall(onerror.name, AloneErrors)>>
           [] OTHER -> <<>>

AloneResponse ==
    IF Truthy(Resolved) /\ AloneErrors # <<>> /\ ErrorSink(Parameters, onerror) = "response"
    THEN [statusCode |-> 400, body |-> ErrorEnvelope(AloneErrors)]
    ELSE FreshResponse

\* the route configuration is as the request brought it, resolves to the
\* schema it resolved to when the request came in, and the outcome of the
\* request is the one it has alone
RequestStandsAlone ==
    /\ pc # "idle" =>
          /\ Get(req, "meta") = Get(received, "meta")
          /\ retrieveSchema(RouteParameters(req), schemaProperty) = Resolved
    /\ pc = "start" => (locals = <<Null, EmptyObj, EmptyObj, FALSE, <<>> >>
                        /\ calls = <<>> /\ log = <<>> /\ res = FreshResponse)
    /\ schema # Null => schema = Resolved
    /\ (pc \notin {"idle", "start"} /\ Truthy(Resolved)) =>
          /\ parseEnabled = ParseEnabled(Parameters, options)
          /\ (ParseReturned \/ ParseThrew) => parseEnabled
    /\ pc = "done" =>
          /\ calls = AloneCalls
          /\ res = AloneResponse
          /\ Truthy(Resolved) => errors = AloneErrors

\* C20: handling a request changes neither the route configuration
\* (req.meta.parameters) nor the arguments the factory was called with, the
\* only state requests share; every request starts from fresh locals, so
\* the outcome of each request of a sequence (skip, next, or the dispatch
\* of its errors) is the outcome it has alone, and the route resolves to the
\* same composite schema before and after a request was handled.
C20_RequestsIndependent ==
    /\ []RequestStandsAlone
    /\ [][factory' = factory]_vars

\* a second request failed validation after the first was handled
C20_Witness ==
    /\ handled = 1
    /\ pc = "done"
    /\ Truthy(Resolved)
    /\ errors # <<>>
    /\ calls = <<HandlerCall("routeOnerror", errors)>>
    /\ Get(req, "meta") = Get(received, "meta")

\* the object schemaProperty leads to, where the schema reference is
Located == retrieveParametersValue(Parameters, schemaProperty)

\* the schema reference lies below the top level of the route parameters
SchemaNested == Truthy(Resolved) /\ Located # Parameters

\* the names of the functions called
Called == {calls[i].fn : i \in 1..Len(calls)}

\* C21: the per-route onerror and validatorTypeboxOptions are those of the
\* top level of the route parameters whatever schemaProperty is: parsing is
\* decided by the top-level validatorTypeboxOptions and the option of the
\* factory, a failure goes to the top-level onerror exactly when that is a
\* function, and keys of these names beside or inside a nested schema
\* reference are never used.  Without a schemaProperty, on route parameters
\* that are a plain mapping of parts, the composite schema declares parts
\* only and carries neither key.
C21_TopLevelOverrides ==
    /\ ParsingDecided =>
          LET top == Get(Get(Get(received, "meta"), "parameters"), "validatorTypeboxOptions")
          IN parseEnabled <=>
                \/ top = Bool(TRUE)
                \/ (top = Undef /\ Get(options, "parse") = Bool(TRUE))
    /\ "nestedOnerror" \notin Called
    /\ (pc = "done" /\ Truthy(Resolved) /\ Reported # <<>>) =>
          LET top == Get(Get(Get(received, "meta"), "parameters"), "onerror")
          IN IF top.t = "fn"
             THEN calls = <<HandlerCall(top.name, Reported)>>
             ELSE calls \in {<<>>, <<HandlerCall("factoryOnerror", Reported)>>}
    /\ (schemaProperty = Undef /\ schema # Null /\ ~IsObject(Parameters)) =>
          /\ Keys(Get(schema, "properties")) \subseteq PartNames
          /\ Keys(schema) \cap {"onerror", "validatorTypeboxOptions"} = {}

\* the schema is at options.schema with a function onerror and a true
\* validatorTypeboxOptions inside it and nothing at the top level: parsing
\* stayed off and the failure went to the 400 response
C21_Witness ==
    /\ pc = "done"
    /\ SchemaNested
    /\ Get(Located, "onerror") = Fn("nestedOnerror")
    /\ Get(Located, "validatorTypeboxOptions") = Bool(TRUE)
    /\ ~HasKey(Parameters, "onerror")
    /\ ~HasKey(Parameters, "validatorTypeboxOptions")
    /\ ~parseEnabled
    /\ Reported # <<>>
    /\ calls = <<>>
    /\ res.statusCode = 400

\* the properties of the request that no longer hold what they arrived with
Assigned == {k \in Keys(req) \cup Keys(received) : Get(req, k) # Get(received, k)}

====
